---- MODULE Spec2Model ----
(***************************************************************************)
(* Model of streamliApp.py: the holdings dashboard script.                 *)
(*                                                                         *)
(* The script is re-run from top to bottom on every user interaction.  One *)
(* run either reports the required columns that the loaded table lacks     *)
(* (ReportMissing) or renders the dashboard for the widget values of that  *)
(* run (Render).  The table is fetched once and cached, so `data` and      *)
(* `columns` never change after Init.                                      *)
(*                                                                         *)
(* Amounts are integers (the pandas columns are numeric); a mean is kept   *)
(* as the pair sum/count, and NaN and inf are explicit values.  The order  *)
(* DuckDB gives to rows with equal ORDER BY keys, and to the groups of a   *)
(* GROUP BY, is not defined by the queries: every order that respects the  *)
(* ORDER BY keys is a possible result.                                     *)
(***************************************************************************)
EXTENDS Integers, Sequences, FiniteSets, TLC

VARIABLES
    data,                    \* the loaded table: a sequence of rows
    columns,                 \* data.columns: the header of the loaded table
    page,                    \* the elements the last run put on the page
    missing_columns,
    clients,
    selected_client,
    client_data,
    total_investment,
    total_market_value,
    net_gain_loss,
    annual_growth_required,
    actual_annual_growth,
    target_increase,
    time_period,
    expected_annual_growth,
    df_protip_data,
    sector_data,
    top_holdings_data

vars == <<data, columns, page, missing_columns, clients, selected_client,
          client_data, total_investment, total_market_value, net_gain_loss,
          annual_growth_required, actual_annual_growth, target_increase,
          time_period, expected_annual_growth, df_protip_data, sector_data,
          top_holdings_data>>

-----------------------------------------------------------------------------
(* Bounds of the checked instances *)

MaxRows == 3

MaxAggRows == 3

MaxTopRows == 6

MaxAbsent == 2

\* the values the two number inputs of the sidebar are given: the defaults
\* of lines 83-84 and zero
Targets == {0, 100000}

Years == {0, 3}

-----------------------------------------------------------------------------
(* Generic helpers *)

Range(s) == {s[i] : i \in 1..Len(s)}

Min(a, b) == IF a <= b THEN a ELSE b

RECURSIVE SetSum(_, _)
SetSum(S, f) ==
    IF S = {} THEN 0
    ELSE LET x == CHOOSE y \in S : TRUE
         IN  f[x] + SetSum(S \ {x}, f)

-----------------------------------------------------------------------------
(* The table *)

required_columns ==
    <<"Client ID", "Client Name", "Product Name", "Investment Amount",
      "Market Value", "Gain/Loss", "Sector", "Risk Level",
      "Annualized Expected Growth", "Actual Annual Growth">>

RequiredSet == Range(required_columns)

\* a column the sheet may carry besides the required ones
ExtraColumn == "Notes"

\* one row of the sheet with all ten required columns
Holding(name, product, sector, inv, mv, gl, exp, act) ==
    [c \in RequiredSet |->
        CASE c = "Client ID"                  -> "id-" \o name
          [] c = "Client Name"                -> name
          [] c = "Product Name"               -> product
          [] c = "Investment Amount"          -> inv
          [] c = "Market Value"               -> mv
          [] c = "Gain/Loss"                  -> gl
          [] c = "Sector"                     -> sector
          [] c = "Risk Level"                 -> "Medium"
          [] c = "Annualized Expected Growth" -> exp
          [] c = "Actual Annual Growth"       -> act]

\* the row as it is read from a sheet whose header is cols
ReadRow(r, cols) == [c \in cols |-> IF c \in DOMAIN r THEN r[c] ELSE ""]

\* conn.read: the table as loaded from a sheet with header cols and rows t
load_data(t, cols) == [i \in 1..Len(t) |-> ReadRow(t[i], cols)]

\* the value pandas gives where there is none (st.selectbox over no options)
None == "<None>"

\* float('nan') and float('inf')
NaN == [kind |-> "nan", num |-> 0, den |-> 1, root |-> 1]

Inf == [kind |-> "inf", num |-> 0, den |-> 1, root |-> 1]

\* the finite number num / den
Num(n, d) == [kind |-> "num", num |-> n, den |-> d, root |-> 1]

\* the variable was never assigned in this run
Unset == [kind |-> "unset", num |-> 0, den |-> 1, root |-> 1]

\* the statement raised (ZeroDivisionError)
Raised == [kind |-> "raise", num |-> 0, den |-> 1, root |-> 1]

-----------------------------------------------------------------------------
(* Lines 26-29: required columns *)

\* a slip of line 29: the scan stops at the first column it misses
missing_columns_first(cols) ==
    LET all == SelectSeq(required_columns, LAMBDA col : col \notin cols)
    IN  IF all = <<>> THEN <<>> ELSE <<all[1]>>

missing_columns_of(cols) ==
    SelectSeq(required_columns, LAMBDA col : col \notin cols)

-----------------------------------------------------------------------------
(* Lines 37-41: client selection *)

\* Series.unique(): the distinct values in order of first appearance
RECURSIVE unique(_)
unique(s) ==
    IF s = <<>> THEN <<>>
    ELSE LET front == unique(SubSeq(s, 1, Len(s) - 1))
             last  == s[Len(s)]
         IN  IF last \in Range(front) THEN front ELSE Append(front, last)

Column(df, col) == [i \in 1..Len(df) |-> df[i][col]]

\* st.sidebar.selectbox: the options the widget can return
selectbox(options) == IF options = <<>> THEN {None} ELSE Range(options)

\* a slip of line 41: only the first matching row is kept
filter_client_first(df, selected) ==
    LET all == SelectSeq(df, LAMBDA r : r["Client Name"] = selected)
    IN  IF all = <<>> THEN <<>> ELSE <<all[1]>>

\* data[data["Client Name"] == selected_client]
filter_client(df, selected) ==
    SelectSeq(df, LAMBDA r : r["Client Name"] = selected)

-----------------------------------------------------------------------------
(* Lines 63-67: KPIs *)

\* Series.sum(): 0 on an empty series
RECURSIVE series_sum(_)
series_sum(s) ==
    IF s = <<>> THEN 0 ELSE s[1] + series_sum(Tail(s))

\* Series.mean(): NaN on an empty series
series_mean(s) ==
    IF s = <<>> THEN NaN ELSE Num(series_sum(s), Len(s))

\* line 63
total_investment_of(cd) == series_sum(Column(cd, "Investment Amount"))

\* a slip of line 64: the market value read from the investment column
total_market_value_copied(cd) == series_sum(Column(cd, "Investment Amount"))

\* line 64
total_market_value_of(cd) == series_sum(Column(cd, "Market Value"))

\* line 65
net_gain_loss_of(market_value, investment) == market_value - investment

\* line 66
annual_growth_required_of(cd) ==
    series_mean(Column(cd, "Annualized Expected Growth"))

\* line 67
actual_annual_growth_of(cd) == series_mean(Column(cd, "Actual Annual Growth"))

-----------------------------------------------------------------------------
(* Lines 83-88: growth needed to reach the target *)

\* the float of line 87 for a divisor that is not zero, kept as the operands
\* of its expression: it stands for ((num / den) ** (1 / root) - 1) * 100.
\* The root is not a rational number in general, so it is not evaluated.
Growth(target, total, years) ==
    [kind |-> "growth", num |-> target, den |-> total, root |-> years]

\* the values line 87 can leave in expected_annual_growth.  The guard of
\* line 86 tests the target and the period, not the divisor.  A zero divisor
\* that is a numpy scalar gives inf; the sum of an empty column can be the
\* Python int 0, and then the division raises ZeroDivisionError.  A negative
\* quotient has no real fractional power: numpy gives nan.
expected_annual_growth_of(target, total, years, empty) ==
    IF ~(target > 0 /\ years > 0) THEN {Unset}
    ELSE IF total = 0 THEN (IF empty THEN {Inf, Raised} ELSE {Inf})
    ELSE IF total < 0 /\ years # 1 THEN {NaN}
    ELSE {Growth(target, total, years)}

-----------------------------------------------------------------------------
(* ORDER BY *)

\* a query without its ORDER BY: the elements of S in any order
RECURSIVE Unordered(_, _)
Unordered(S, key) ==
    IF S = {} THEN {<<>>}
    ELSE UNION {{<<x>> \o rest : rest \in Unordered(S \ {x}, key)} : x \in S}

\* every arrangement of the elements of S in non-decreasing order of key;
\* elements with equal keys come in any order
RECURSIVE OrderBy(_, _)
OrderBy(S, key) ==
    IF S = {} THEN {<<>>}
    ELSE UNION {{<<x>> \o rest : rest \in OrderBy(S \ {x}, key)} :
                   x \in {y \in S : \A z \in S : key[y] <= key[z]}}

\* the arrangements of S in non-increasing order of key
OrderByDesc(S, key) == OrderBy(S, [x \in S |-> 0 - key[x]])

-----------------------------------------------------------------------------
(* Lines 93-107: at-risk investments *)

AtRiskColumns ==
    {"Client ID", "Client Name", "Product Name", "Investment Amount",
     "Market Value", "Gain/Loss", "Sector", "Risk Level"}

\* the SELECT list: "Gain/Loss" is ("Market Value" - "Investment Amount")
at_risk_select(r) ==
    [c \in AtRiskColumns |->
        IF c = "Gain/Loss" THEN r["Market Value"] - r["Investment Amount"]
        ELSE r[c]]

\* WHERE "Market Value" < "Investment Amount"
at_risk_where(df) ==
    SelectSeq(df, LAMBDA r : r["Market Value"] < r["Investment Amount"])

\* ORDER BY "Gain/Loss" read as the column of client_data
at_risk_order_key_source(kept, rows) ==
    [i \in 1..Len(rows) |-> kept[i]["Gain/Loss"]]

\* ORDER BY "Gain/Loss" ASC: the name is the alias of the SELECT list, so the
\* key is the recomputed value (rows), not the column of client_data (kept)
at_risk_order_key(kept, rows) == [i \in 1..Len(rows) |-> rows[i]["Gain/Loss"]]

\* the results the query at lines 93-107 can give
at_risk_query(df) ==
    LET kept == at_risk_where(df)
        rows == [i \in 1..Len(kept) |-> at_risk_select(kept[i])]
    IN  {[j \in 1..Len(rows) |-> rows[o[j]]] :
            o \in OrderBy(1..Len(rows), at_risk_order_key(kept, rows))}

-----------------------------------------------------------------------------
(* Lines 116-128: net gain/loss by sector *)

\* an aggregate that takes the first row of the group instead of the sum
group_first(df, col, value, f) ==
    LET S == {i \in 1..Len(df) : df[i][col] = value}
    IN  f[CHOOSE i \in S : \A j \in S : i <= j]

\* SUM(expr) over the rows of one group; f[i] is expr on row i
group_sum(df, col, value, f) ==
    SetSum({i \in 1..Len(df) : df[i][col] = value}, f)

sector_aggregate(df, s) ==
    ("Sector" :> s)
    @@ ("Total Invested" :>
           group_sum(df, "Sector", s, [i \in 1..Len(df) |-> df[i]["Investment Amount"]]))
    @@ ("Total Market Value" :>
           group_sum(df, "Sector", s, [i \in 1..Len(df) |-> df[i]["Market Value"]]))
    @@ ("Net Gain/Loss" :>
           group_sum(df, "Sector", s,
               [i \in 1..Len(df) |-> df[i]["Market Value"] - df[i]["Investment Amount"]]))

\* GROUP BY "Sector": one row per distinct sector
sector_groups(df) == {sector_aggregate(df, s) : s \in Range(Column(df, "Sector"))}

\* the query with DESC left out
sector_query_asc(df) ==
    LET groups == sector_groups(df)
    IN  OrderBy(groups, [g \in groups |-> g["Net Gain/Loss"]])

\* ORDER BY "Net Gain/Loss" DESC
sector_query(df) ==
    LET groups == sector_groups(df)
    IN  OrderByDesc(groups, [g \in groups |-> g["Net Gain/Loss"]])

-----------------------------------------------------------------------------
(* Lines 141-152: top holdings *)

top_holdings_limit == 5

holding_aggregate(df, p) ==
    ("Product Name" :> p)
    @@ ("Total Invested" :>
           group_sum(df, "Product Name", p,
               [i \in 1..Len(df) |-> df[i]["Investment Amount"]]))

\* GROUP BY "Product Name"
holding_groups(df) ==
    {holding_aggregate(df, p) : p \in Range(Column(df, "Product Name"))}

\* the query with LIMIT left out
top_holdings_query_all(df) ==
    LET groups == holding_groups(df)
    IN  OrderByDesc(groups, [g \in groups |-> g["Total Invested"]])

\* ORDER BY "Total Invested" DESC LIMIT 5
top_holdings_query(df) ==
    LET groups == holding_groups(df)
    IN  {SubSeq(o, 1, Min(top_holdings_limit, Len(o))) :
            o \in OrderByDesc(groups, [g \in groups |-> g["Total Invested"]])}

-----------------------------------------------------------------------------
(* The script run *)

\* what a complete run puts on the page, in order
PageUpToKpis == <<"client_table", "kpis">>

PageTail == <<"at_risk", "sector_chart", "top_holdings_chart">>

\* lines 31-32: the branch of the missing columns
ReportMissing ==
    /\ page = <<>>
    /\ missing_columns_of(columns) # <<>>
    /\ missing_columns' = missing_columns_of(columns)
    /\ page' = <<"error">>
    /\ clients' = <<>>
    /\ selected_client' = None
    /\ client_data' = <<>>
    /\ total_investment' = 0
    /\ total_market_value' = 0
    /\ net_gain_loss' = 0
    /\ annual_growth_required' = Unset
    /\ actual_annual_growth' = Unset
    /\ target_increase' = 0
    /\ time_period' = 0
    /\ expected_annual_growth' = Unset
    /\ df_protip_data' = <<>>
    /\ sector_data' = <<>>
    /\ top_holdings_data' = <<>>
    /\ UNCHANGED <<data, columns>>

\* lines 33-182: the dashboard for one choice of the widget values
Render ==
    /\ page = <<>>
    /\ missing_columns_of(columns) = <<>>
    /\ missing_columns' = <<>>
    /\ clients' = unique(Column(data, "Client Name"))
    /\ \E selected \in selectbox(clients') :
         LET cd    == filter_client(data, selected)
             total == total_investment_of(cd)
             value == total_market_value_of(cd)
         IN  /\ selected_client' = selected
             /\ client_data' = cd
             /\ total_investment' = total
             /\ total_market_value' = value
             /\ net_gain_loss' = net_gain_loss_of(value, total)
             /\ annual_growth_required' = annual_growth_required_of(cd)
             /\ actual_annual_growth' = actual_annual_growth_of(cd)
             /\ \E at_risk \in at_risk_query(cd),
                   sectors \in sector_query(cd),
                   holdings \in top_holdings_query(cd),
                   target \in Targets, years \in Years :
                  /\ target_increase' = target
                  /\ time_period' = years
                  /\ expected_annual_growth' \in
                         expected_annual_growth_of(target, total, years, cd = <<>>)
                  /\ IF expected_annual_growth' = Raised
                     THEN /\ page' = PageUpToKpis \o <<"exception">>
                          /\ df_protip_data' = <<>>
                          /\ sector_data' = <<>>
                          /\ top_holdings_data' = <<>>
                     ELSE /\ page' = PageUpToKpis
                                    \o (IF expected_annual_growth' = Unset
                                        THEN <<>> ELSE <<"growth_text">>)
                                    \o PageTail
                          /\ df_protip_data' = at_risk
                          /\ sector_data' = sectors
                          /\ top_holdings_data' = holdings
    /\ UNCHANGED <<data, columns>>

\* a user interaction: the page and the variables of the finished run are
\* discarded and the script starts again on the cached table
Rerun ==
    /\ page # <<>>
    /\ page' = <<>>
    /\ missing_columns' = <<>>
    /\ clients' = <<>>
    /\ selected_client' = None
    /\ client_data' = <<>>
    /\ total_investment' = 0
    /\ total_market_value' = 0
    /\ net_gain_loss' = 0
    /\ annual_growth_required' = Unset
    /\ actual_annual_growth' = Unset
    /\ target_increase' = 0
    /\ time_period' = 0
    /\ expected_annual_growth' = Unset
    /\ df_protip_data' = <<>>
    /\ sector_data' = <<>>
    /\ top_holdings_data' = <<>>
    /\ UNCHANGED <<data, columns>>

Next == ReportMissing \/ Render \/ Rerun

-----------------------------------------------------------------------------
(* Loaded tables *)

\* the sequences of at most n rows drawn from rows
TablesOf(rows, n) == UNION {[1..k -> rows] : k \in 0..n}

\* the headers a sheet can have: at most MaxAbsent required columns absent,
\* with or without the extra column
Headers ==
    {(RequiredSet \ absent) \cup extra :
        absent \in {a \in SUBSET RequiredSet : Cardinality(a) <= MaxAbsent},
        extra \in {{}, {ExtraColumn}}}

\* the script has not run yet
NotRun ==
    /\ page = <<>>
    /\ missing_columns = <<>>
    /\ clients = <<>>
    /\ selected_client = None
    /\ client_data = <<>>
    /\ total_investment = 0
    /\ total_market_value = 0
    /\ net_gain_loss = 0
    /\ annual_growth_required = Unset
    /\ actual_annual_growth = Unset
    /\ target_increase = 0
    /\ time_period = 0
    /\ expected_annual_growth = Unset
    /\ df_protip_data = <<>>
    /\ sector_data = <<>>
    /\ top_holdings_data = <<>>

\* a sheet whose header is not exactly the required columns, with at most one
\* row, drawn from rows
OddSheet(rows) ==
    /\ columns \in Headers \ {RequiredSet}
    /\ \E t \in TablesOf(rows, 1) : data = load_data(t, columns)

\* the state before the first run: a sheet with exactly the required columns
\* and at most n rows drawn from rows, or an odd sheet
InitWith(rows, n) ==
    /\ \/ /\ columns = RequiredSet
          /\ \E t \in TablesOf(rows, n) : data = load_data(t, RequiredSet)
       \/ OddSheet(rows)
    /\ NotRun

\* holdings of two clients; the amounts vary, product and sector do not
ClientRows ==
    {Holding(n, "Fund", "Tech", inv, mv, mv - inv, 10 * inv, 10 * mv) :
        n \in {"Asha", "Ravi"}, inv \in 0..2, mv \in 0..2}

Init == InitWith(ClientRows, MaxRows)

Spec == Init /\ [][Next]_vars

\* holdings of one client over two sectors, whose "Gain/Loss" column is
\* either current or stale, and one holding of another client
SectorRows ==
    {Holding("Asha", "Fund", s, inv, mv, IF stale THEN 0 ELSE mv - inv, 10, 10) :
        s \in {"Tech", "Energy"}, inv \in 1..2, mv \in 0..2,
        stale \in BOOLEAN}
    \cup {Holding("Ravi", "Fund", "Tech", 2, 0, 0, 10, 10)}

InitAgg == InitWith(SectorRows, MaxAggRows)

SpecAgg == InitAgg /\ [][Next]_vars

\* holdings of one client over up to six products
Products == <<"P1", "P2", "P3", "P4", "P5", "P6">>

\* the product of each row, products being numbered as they first appear
RECURSIVE ProductPatterns(_)
ProductPatterns(n) ==
    IF n = 0 THEN {<<>>}
    ELSE UNION {{Append(s, p) :
                    p \in 1..Min(Len(Products), Cardinality(Range(s)) + 1)} :
                  s \in ProductPatterns(n - 1)}

\* the table whose row i is for product pattern[i] with amount amounts[i]
ProductTable(pattern, amounts) ==
    [i \in 1..Len(pattern) |->
        Holding("Asha", Products[pattern[i]], "Tech", amounts[i], amounts[i], 0, 10, 10)]

InitTop ==
    /\ \/ /\ columns = RequiredSet
          /\ \E n \in 0..MaxTopRows :
               \E pattern \in ProductPatterns(n), amounts \in [1..n -> 1..2] :
                  data = load_data(ProductTable(pattern, amounts), RequiredSet)
       \/ OddSheet({Holding("Asha", Products[1], "Tech", a, a, 0, 10, 10) : a \in 1..2})
    /\ NotRun

SpecTop == InitTop /\ [][Next]_vars

-----------------------------------------------------------------------------
(* Properties *)

\* the last run took the dashboard branch
Ran == page # <<>> /\ page[1] = "client_table"

\* the last run took the dashboard branch and reached its end
Rendered == page # <<>> /\ page[Len(page)] = "top_holdings_chart"

\* the number of positions of s that hold v
Count(s, v) == Cardinality({i \in 1..Len(s) : s[i] = v})

\* r and s hold the same elements the same number of times
SameBag(r, s) ==
    /\ Len(r) = Len(s)
    /\ \A v \in Range(r) \cup Range(s) : Count(r, v) = Count(s, v)

\* the i-th smallest element of the set S of numbers
Nth(S, i) == CHOOSE j \in S : Cardinality({x \in S : x <= j}) = i

\* sub is the rows of df whose client name is n, in the order of df
IsSelection(sub, df, n) ==
    LET S == {i \in 1..Len(df) : df[i]["Client Name"] = n}
    IN  /\ Len(sub) = Cardinality(S)
        /\ \A i \in 1..Len(sub) : sub[i] = df[Nth(S, i)]

\* the client names the selection is tried on; "Zoya" is in no table
ProbeNames == {"Asha", "Ravi", "Zoya"}

\* C1: after a run, an error is on the page exactly when a required column
\* is absent; its list holds exactly the absent required columns, once each,
\* and nothing was selected, computed or aggregated; with all ten columns
\* present no column is reported and the run took the dashboard branch.
C1_MissingColumns ==
    page # <<>> =>
        IF RequiredSet \subseteq columns
        THEN /\ page # <<"error">>
             /\ missing_columns = <<>>
             /\ Ran
        ELSE /\ page = <<"error">>
             /\ Range(missing_columns) = RequiredSet \ columns
             /\ Len(missing_columns) = Cardinality(RequiredSet \ columns)
             /\ clients = <<>> /\ selected_client = None /\ client_data = <<>>
             /\ annual_growth_required = Unset /\ actual_annual_growth = Unset
             /\ expected_annual_growth = Unset
             /\ df_protip_data = <<>> /\ sector_data = <<>>
             /\ top_holdings_data = <<>>

\* a sheet with rows that lacks two required columns has had its error
C1_Witness ==
    /\ page = <<"error">>
    /\ data # <<>>
    /\ Len(missing_columns) = 2
    /\ ExtraColumn \in columns

\* C2: the required growth is not computed when the total investment or the
\* number of years is not positive.
C2_GrowthSkippedUnlessPositive ==
    (Ran /\ (total_investment <= 0 \/ time_period <= 0))
        => expected_annual_growth = Unset

\* C3: a selection of no rows gives an empty subset, zero sums, means that
\* are a "no data" value and not NaN, no failure, and empty at-risk, sector
\* and top-holdings results.
C3_EmptySelectionGraceful ==
    (Ran /\ client_data = <<>>) =>
        /\ Rendered
        /\ total_investment = 0 /\ total_market_value = 0 /\ net_gain_loss = 0
        /\ annual_growth_required # NaN
        /\ actual_annual_growth # NaN
        /\ df_protip_data = <<>> /\ sector_data = <<>>
        /\ top_holdings_data = <<>>

\* C4: the client subset is the rows of the table with the selected name, all
\* of them and no other, in the order of the table; the same holds of the
\* selection of any name; every name offered occurs in the table.
C4_SelectClient ==
    Ran =>
        /\ IsSelection(client_data, data, selected_client)
        /\ \A n \in ProbeNames : IsSelection(filter_client(data, n), data, n)
        /\ Range(clients) \subseteq Range(Column(data, "Client Name"))
        /\ data # <<>> => selected_client \in Range(clients)

\* the selected client holds the first and the third row of the table
C4_Witness ==
    /\ Ran
    /\ Len(data) = 3
    /\ Len(client_data) = 2
    /\ data[2]["Client Name"] # selected_client
    /\ client_data[1] # client_data[2]

\* C5: the total investment and the total market value are the sums over the
\* rows of the selected client and of no other row, and the net gain/loss is
\* their difference.
C5_KpiSums ==
    Ran =>
        LET S == {i \in 1..Len(data) : data[i]["Client Name"] = selected_client}
        IN  /\ total_investment =
                  SetSum(S, [i \in 1..Len(data) |-> data[i]["Investment Amount"]])
            /\ total_market_value =
                  SetSum(S, [i \in 1..Len(data) |-> data[i]["Market Value"]])
            /\ net_gain_loss = total_market_value - total_investment

\* two holdings of the selected client beside a holding of another client
C5_Witness ==
    /\ Ran
    /\ Len(client_data) = 2
    /\ Len(data) = 3
    /\ total_investment > 0
    /\ total_market_value # total_investment
    /\ series_sum(Column(data, "Investment Amount")) # total_investment

\* the columns of an at-risk row other than the gain/loss
Position(r) == [c \in AtRiskColumns \ {"Gain/Loss"} |-> r[c]]

\* C6: the at-risk rows are the rows of the subset whose market value is
\* below the investment, each with its gain/loss recomputed from its own
\* amounts and therefore negative, in non-decreasing order of that value.
C6_AtRisk ==
    Rendered =>
        /\ SameBag([j \in 1..Len(df_protip_data) |-> Position(df_protip_data[j])],
                   LET kept == SelectSeq(client_data,
                                  LAMBDA r : r["Market Value"] < r["Investment Amount"])
                   IN  [i \in 1..Len(kept) |-> Position(kept[i])])
        /\ \A j \in 1..Len(df_protip_data) :
             /\ df_protip_data[j]["Gain/Loss"] =
                   df_protip_data[j]["Market Value"]
                     - df_protip_data[j]["Investment Amount"]
             /\ df_protip_data[j]["Gain/Loss"] < 0
        /\ \A j, k \in 1..Len(df_protip_data) :
             j < k => df_protip_data[j]["Gain/Loss"] <= df_protip_data[k]["Gain/Loss"]

\* two at-risk rows whose stale source column orders them the other way round,
\* beside a row that is not at risk
C6_Witness ==
    /\ Rendered
    /\ Len(client_data) = 3
    /\ Len(df_protip_data) = 2
    /\ df_protip_data[1]["Gain/Loss"] < df_protip_data[2]["Gain/Loss"]
    /\ \E i, j \in 1..Len(client_data) :
         /\ Position(client_data[i]) = Position(df_protip_data[1])
         /\ Position(client_data[j]) = Position(df_protip_data[2])
         /\ client_data[i]["Gain/Loss"] > client_data[j]["Gain/Loss"]

\* the rows of df in sector s
InSector(df, s) == SelectSeq(df, LAMBDA r : r["Sector"] = s)

\* C7: the sector summary has one aggregate for each sector of the subset,
\* holding the sums of the investments and of the market values of the
\* sector and their difference, in non-increasing order of the difference.
C7_SectorSummary ==
    Rendered =>
        /\ Range(Column(sector_data, "Sector")) = Range(Column(client_data, "Sector"))
        /\ Len(sector_data) = Cardinality(Range(Column(client_data, "Sector")))
        /\ \A j \in 1..Len(sector_data) :
             LET rows == InSector(client_data, sector_data[j]["Sector"])
             IN  /\ sector_data[j]["Total Invested"] =
                       series_sum(Column(rows, "Investment Amount"))
                 /\ sector_data[j]["Total Market Value"] =
                       series_sum(Column(rows, "Market Value"))
                 /\ sector_data[j]["Net Gain/Loss"] =
                       sector_data[j]["Total Market Value"]
                         - sector_data[j]["Total Invested"]
        /\ \A j, k \in 1..Len(sector_data) :
             j < k => sector_data[j]["Net Gain/Loss"] >= sector_data[k]["Net Gain/Loss"]

\* two sectors, one of them with two rows, with different net results
C7_Witness ==
    /\ Rendered
    /\ Len(client_data) = 3
    /\ Len(sector_data) = 2
    /\ sector_data[1]["Net Gain/Loss"] > sector_data[2]["Net Gain/Loss"]
    /\ sector_data[1]["Total Invested"] # sector_data[2]["Total Invested"]

\* the rows of df for product p
OfProduct(df, p) == SelectSeq(df, LAMBDA r : r["Product Name"] = p)

\* the sum invested in product p
InvestedIn(df, p) == series_sum(Column(OfProduct(df, p), "Investment Amount"))

\* C8: with d distinct products the top holdings are min(5, d) entries for
\* distinct products of the subset, each with the sum invested in it, in
\* non-increasing order of the sum, and no product left out has a larger sum
\* than a product returned.
C8_TopHoldings ==
    Rendered =>
        LET products == Range(Column(client_data, "Product Name"))
            returned == Range(Column(top_holdings_data, "Product Name"))
        IN  /\ Len(top_holdings_data) = Min(5, Cardinality(products))
            /\ Cardinality(returned) = Len(top_holdings_data)
            /\ returned \subseteq products
            /\ \A j \in 1..Len(top_holdings_data) :
                 top_holdings_data[j]["Total Invested"] =
                     InvestedIn(client_data, top_holdings_data[j]["Product Name"])
            /\ \A j, k \in 1..Len(top_holdings_data) :
                 j < k => top_holdings_data[j]["Total Invested"]
                            >= top_holdings_data[k]["Total Invested"]
            /\ \A p \in products \ returned : \A j \in 1..Len(top_holdings_data) :
                 InvestedIn(client_data, p) <= top_holdings_data[j]["Total Invested"]

\* six products of which five are returned, the one left out being smaller
\* than each of them
C8_Witness ==
    /\ Rendered
    /\ Cardinality(Range(Column(client_data, "Product Name"))) = 6
    /\ Len(top_holdings_data) = 5
    /\ \E p \in Range(Column(client_data, "Product Name")) :
         InvestedIn(client_data, p) < top_holdings_data[5]["Total Invested"]

\* s with x put after the last element whose key is not above that of x
RECURSIVE InsertByKey(_, _, _)
InsertByKey(s, x, key) ==
    IF s = <<>> THEN <<x>>
    ELSE IF key[s[Len(s)]] <= key[x] THEN Append(s, x)
    ELSE Append(InsertByKey(SubSeq(s, 1, Len(s) - 1), x, key), s[Len(s)])

\* the first n elements of s in non-decreasing order of key, equal keys in
\* the order of s
RECURSIVE StableSort(_, _, _)
StableSort(s, key, n) ==
    IF n = 0 THEN <<>>
    ELSE InsertByKey(StableSort(s, key, n - 1), s[n], key)

\* the at-risk rows of df with ties in the order of df
StableAtRisk(df) ==
    LET kept  == SelectSeq(df, LAMBDA r : r["Market Value"] < r["Investment Amount"])
        rows  == [i \in 1..Len(kept) |-> at_risk_select(kept[i])]
        order == StableSort([i \in 1..Len(rows) |-> i],
                            [i \in 1..Len(rows) |-> rows[i]["Gain/Loss"]],
                            Len(rows))
    IN  [j \in 1..Len(rows) |-> rows[order[j]]]

\* the sector aggregates of df with ties in the order in which the sectors
\* first occur in df
StableSectors(df) ==
    LET firsts == unique(Column(df, "Sector"))
        groups == [i \in 1..Len(firsts) |-> sector_aggregate(df, firsts[i])]
        order  == StableSort([i \in 1..Len(groups) |-> i],
                             [i \in 1..Len(groups) |-> 0 - groups[i]["Net Gain/Loss"]],
                             Len(groups))
    IN  [j \in 1..Len(groups) |-> groups[order[j]]]

\* C9 as stated: rows with equal gain/loss keep the order of the subset and
\* sectors with equal net gain/loss come in the order of their first
\* occurrence in the subset.
C9_StableTies ==
    Rendered =>
        /\ df_protip_data = StableAtRisk(client_data)
        /\ sector_data = StableSectors(client_data)

\* C9 amended: the two results agree with the stably sorted ones in the
\* sequence of their sort keys and in the rows they hold; the order among
\* rows with equal keys is any.
C9_TiesInAnyOrder ==
    Rendered =>
        LET at_risk == StableAtRisk(client_data)
            sectors == StableSectors(client_data)
        IN  /\ SameBag(df_protip_data, at_risk)
            /\ \A j \in 1..Len(at_risk) :
                 df_protip_data[j]["Gain/Loss"] = at_risk[j]["Gain/Loss"]
            /\ SameBag(sector_data, sectors)
            /\ \A j \in 1..Len(sectors) :
                 sector_data[j]["Net Gain/Loss"] = sectors[j]["Net Gain/Loss"]

\* both results have a tie that came out against the order of the subset
C9_Witness ==
    /\ Rendered
    /\ df_protip_data # StableAtRisk(client_data)
    /\ sector_data # StableSectors(client_data)

\* C10: the sector aggregates add up to the KPIs of the same subset.
C10_SectorsAddUpToKpis ==
    Rendered =>
        /\ series_sum(Column(sector_data, "Total Invested")) = total_investment
        /\ series_sum(Column(sector_data, "Total Market Value")) = total_market_value
        /\ series_sum(Column(sector_data, "Net Gain/Loss")) = net_gain_loss

\* two sectors of the selected client beside a holding of another client
C10_Witness ==
    /\ Rendered
    /\ Len(data) = 3
    /\ Len(client_data) = 2
    /\ Len(sector_data) = 2
    /\ net_gain_loss # 0
    /\ total_investment # total_market_value

====
